---- MODULE Spec2Model ----
(***************************************************************************)
(* Model of maestro: the command runner of src/maestro/__main__.py (the    *)
(* commands black, isort, ruff, flake8, mypy, the composite run `linting`  *)
(* and run_command) and the pyproject.toml mutation commands of            *)
(* src/maestro/pyprojecttoml.py (`pyproject ruff|isort|mypy`).             *)
(***************************************************************************)
EXTENDS Integers, Sequences, FiniteSets, TLC

VARIABLES
    file,          \* <parent_dir>/pyproject.toml: [exists, doc, comments]
    prior,         \* the file as it was when the last pyproject command started
    last,          \* the last pyproject command: [cmd, forced, result, key]
    fs,            \* the paths that exist in the working directory
    inv,           \* the command line of the invocation: [cmd, ...options]
    pc,            \* position of the invocation
    spawned,       \* the child processes spawned by sp.run, in order: [argv, status]
    ran,           \* the calls of run_command, in order: [argv, with_exit, res]
    outcome,       \* what the invoked command handed to its caller
    idx,           \* linting: index of the step of the for loop
    return_code,   \* linting: the local return_code
    completed,     \* linting: task.completed of the progress bar
    events,        \* linting: progress updates and step calls, in program order
    console,       \* what the commands printed with CONSOLE.print, in order
    results,       \* linting: what each invoked step yielded, in order
    target,        \* vscode, gitlab: the content of each path under .vscode and .gitlab
    before,        \* vscode, gitlab: target as it was when the command started
    todo,          \* vscode, gitlab: the template files still to iterate over
    prompts,       \* vscode, gitlab: the questions of typer.confirm and their answers
    writes         \* vscode, gitlab: the write_text calls that were made, in order

vars == <<file, prior, last, fs, inv, pc, spawned, ran, outcome, idx,
          return_code, completed, events, console, results,
          target, before, todo, prompts, writes>>

cfgVars == <<file, prior, last>>
scaffoldVars == <<target, before, todo, prompts, writes>>
runVars == <<fs, inv, pc, spawned, ran, outcome, idx, return_code, completed,
             events, console, results, scaffoldVars>>

(***************************************************************************)
(* Bounds of the model.                                                    *)
(***************************************************************************)
\* the exit status of a child process (process.returncode) is drawn from 0..MaxExit
MaxExit == 2

ExitStatuses == 0..MaxExit

(***************************************************************************)
(* TOML documents: a table is a function from keys to values.              *)
(***************************************************************************)
EmptyTable == [k \in {} |-> TRUE]

Has(t, k) == k \in DOMAIN t

\* t[k] = v of a python dict
Put(t, k, v) == [x \in (DOMAIN t) \cup {k} |-> IF x = k THEN v ELSE t[x]]

Merge(f, g) == [x \in (DOMAIN f) \cup (DOMAIN g) |-> IF x \in DOMAIN g THEN g[x] ELSE f[x]]

(***************************************************************************)
(* The values the pyproject commands write.                                *)
(***************************************************************************)
RuffTargetVersion == "py37"

RuffLineLength == 95

RuffSelect ==
    << "F", "E", "W", "N", "UP", "YTT", "ANN", "BLE", "B", "A", "COM", "C4",
       "T10", "EM", "EXE", "ISC", "ICN", "LOG", "G", "INP", "PIE", "T20",
       "PYI", "PT", "Q", "RSE", "RET", "SLOT", "SLF", "SIM", "TID", "TCH",
       "INT", "ARG", "PTH", "TD", "PD", "PGH", "PL", "TRY", "FLY", "NPY",
       "PERF", "FURB", "RUF" >>

RuffIgnore ==
    << "ANN401", "ARG001", "ARG002", "COM812", "EM101", "PD011", "PLC1901",
       "PLR0911", "PLR0912", "PLR0913", "PLR0915", "PLR2004", "PTH123",
       "RET501", "RET505", "RET506", "SIM108", "SIM116", "TD002", "TD003",
       "TC001", "TC002", "TC003", "TRY002", "TRY003", "UP006", "UP007" >>

IsortTable ==
    [ sections |-> "LOCALFOLDER,FIRSTPARTY,THIRDPARTY,STDLIB,FUTURE",
      multi_line_output |-> 3,
      line_length |-> 95,
      use_parentheses |-> TRUE,
      include_trailing_comma |-> TRUE,
      force_grid_wrap |-> 0,
      ensure_newline_before_comments |-> TRUE ]

MypyOverrides ==
    << [ module |-> << "importlib_metadata.*" >>, ignore_missing_imports |-> TRUE ] >>

(***************************************************************************)
(* The file.  toml.load yields the plain key/value document: comments and  *)
(* layout of the text are not part of it, so a file written back by        *)
(* toml.dump carries none.                                                 *)
(***************************************************************************)
NoFile == [exists |-> FALSE, doc |-> EmptyTable, comments |-> FALSE]

\* toml.load(pyproject_filepath)
TomlLoad(f) == f.doc

\* with open(pyproject_filepath, "w") as f: toml.dump(pyproject_toml, f)
TomlDump(d) == [exists |-> TRUE, doc |-> d, comments |-> FALSE]

\* a command that raised ValueError at a conflict on `key`
Conflict(d, key) == [ok |-> FALSE, doc |-> d, key |-> key]

\* a command that reached its toml.dump
Done(d) == [ok |-> TRUE, doc |-> d, key |-> "none"]

\* if "tool" not in pyproject_toml: pyproject_toml["tool"] = {}
EnsureTool(d) == IF Has(d, "tool") THEN d ELSE Put(d, "tool", EmptyTable)

\* pyproject_toml["tool"][name] = t
PutTool(d, name, t) == Put(d, "tool", Put(d["tool"], name, t))

\* pyproject ruff, from toml.load to the statement before the dump, on the
\* loaded document d
RuffMutate(d, forced) ==
    LET d1 == EnsureTool(d)
        checked1 == ~forced /\ Has(d1["tool"], "ruff")
        d2 == IF ~checked1 /\ ~Has(d1["tool"], "ruff")
              THEN PutTool(d1, "ruff", EmptyTable)
              ELSE d1
        r3 == Put(Put(d2["tool"]["ruff"], "target-version", RuffTargetVersion),
                  "line-length", RuffLineLength)
        d3 == PutTool(d2, "ruff", r3)
        checked2 == ~forced /\ Has(r3, "lint")
        r4 == IF ~checked2 /\ ~Has(r3, "lint")
              THEN Put(r3, "lint", EmptyTable)
              ELSE r3
        l5 == Put(Put(r4["lint"], "select", RuffSelect), "ignore", RuffIgnore)
        d5 == PutTool(d3, "ruff", Put(r4, "lint", l5))
    IN  IF checked1 /\ Has(d1["tool"]["ruff"], "target-version")
        THEN Conflict(d1, "target-version")
        ELSE IF checked1 /\ Has(d1["tool"]["ruff"], "line-length")
        THEN Conflict(d1, "line-length")
        ELSE IF checked2 /\ Has(r3["lint"], "select")
        THEN Conflict(d3, "select")
        ELSE IF checked2 /\ Has(r3["lint"], "ignore")
        THEN Conflict(d3, "ignore")
        ELSE Done(d5)

\* pyproject isort without the test of an existing tool.isort
IsortMutateUnchecked(d, forced) == Done(PutTool(EnsureTool(d), "isort", IsortTable))

\* pyproject isort, from toml.load to the statement before the dump
IsortMutate(d, forced) ==
    LET d1 == EnsureTool(d)
    IN  IF ~forced /\ Has(d1["tool"], "isort")
        THEN Conflict(d1, "tool.isort")
        ELSE Done(PutTool(d1, "isort", IsortTable))

\* pyproject mypy without the test of an existing tool.mypy
MypyMutateUnchecked(d) ==
    Done(PutTool(EnsureTool(d), "mypy", [overrides |-> MypyOverrides]))

\* pyproject mypy, from toml.load to the statement before the dump
MypyMutate(d) ==
    LET d1 == EnsureTool(d)
        d2 == PutTool(d1, "mypy", EmptyTable)
    IN  IF Has(d1["tool"], "mypy")
        THEN Conflict(d1, "tool.mypy")
        ELSE IF Has(d2["tool"], "overrides")
        THEN Conflict(d2, "tool.overrides")
        ELSE Done(PutTool(d2, "mypy", Put(d2["tool"]["mypy"], "overrides", MypyOverrides)))

\* the document part of a command, by name
Mutate(cmd, d, forced) ==
    CASE cmd = "ruff" -> RuffMutate(d, forced)
      [] cmd = "isort" -> IsortMutate(d, forced)
      [] cmd = "mypy" -> MypyMutate(d)

\* a command that does not test the existence of the file
MissingFileUntested(f) == FALSE

\* if not pyproject_filepath.exists(): raise ValueError(...)
MissingFile(f) == ~f.exists

\* a command that dumps the document it holds whether or not it raised
PersistAlways(f, r) == TomlDump(r.doc)

\* the file a command leaves: the dump is the last statement, reached only
\* when nothing was raised before it
Persist(f, r) == IF r.ok THEN TomlDump(r.doc) ELSE f

(***************************************************************************)
(* The pyproject commands.  Each is one run of the command on the file.    *)
(***************************************************************************)
\* the file and the report a command leaves when run on file f
Command(cmd, f, forced) ==
    IF MissingFile(f)
    THEN [file |-> f,
          last |-> [cmd |-> cmd, forced |-> forced, result |-> "notfound", key |-> "none"]]
    ELSE LET r == Mutate(cmd, TomlLoad(f), forced)
         IN  [file |-> Persist(f, r),
              last |-> [cmd |-> cmd, forced |-> forced,
                        result |-> IF r.ok THEN "ok" ELSE "conflict", key |-> r.key]]

PyprojectRuff ==
    \E forced \in BOOLEAN :
        /\ prior' = file
        /\ file' = Command("ruff", file, forced).file
        /\ last' = Command("ruff", file, forced).last
        /\ UNCHANGED runVars

PyprojectIsort ==
    \E forced \in BOOLEAN :
        /\ prior' = file
        /\ file' = Command("isort", file, forced).file
        /\ last' = Command("isort", file, forced).last
        /\ UNCHANGED runVars

\* pyproject mypy has no --forced option
PyprojectMypy ==
    /\ prior' = file
    /\ file' = Command("mypy", file, FALSE).file
    /\ last' = Command("mypy", file, FALSE).last
    /\ UNCHANGED runVars

(***************************************************************************)
(* The files the commands are run on: every combination of the sections    *)
(* and keys the commands look at, each with a value that is not the one    *)
(* the command writes, next to keys the commands do not know.              *)
(***************************************************************************)
OldValue(k) ==
    CASE k = "target-version" -> "py39"
      [] k = "line-length" -> 80
      [] k = "exclude" -> << "build" >>
      [] k = "select" -> << "E" >>
      [] k = "ignore" -> << "E501" >>
      [] k = "fixable" -> << "ALL" >>
      [] k = "line_length" -> 80
      [] k = "profile" -> "black"
      [] k = "strict" -> TRUE
      [] k = "overrides" -> << [ module |-> << "legacy.*" >>, ignore_missing_imports |-> FALSE ] >>
      [] k = "name" -> "demo"

OldTables(keys) == { [k \in S |-> OldValue(k)] : S \in SUBSET keys }

Opt(k, tables) == {EmptyTable} \cup { [x \in {k} |-> t] : t \in tables }

InitialLint == OldTables({"select", "ignore", "fixable"})

InitialRuff ==
    { Merge(t, l) : t \in OldTables({"target-version", "line-length", "exclude"}),
                    l \in Opt("lint", InitialLint) }

InitialTool ==
    { Merge(Merge(Merge(r, i), m), o) :
        r \in Opt("ruff", InitialRuff),
        i \in Opt("isort", OldTables({"line_length", "profile"})),
        m \in Opt("mypy", OldTables({"strict", "overrides"})),
        o \in Opt("overrides", {OldValue("overrides")}) }

InitialDocs ==
    { Merge(p, t) : p \in Opt("project", {[name |-> OldValue("name")]}),
                    t \in Opt("tool", InitialTool) }

InitialFiles ==
    {NoFile} \cup { [exists |-> TRUE, doc |-> d, comments |-> c] :
                      d \in InitialDocs, c \in BOOLEAN }

NoCommand == [cmd |-> "none", forced |-> FALSE, result |-> "none", key |-> "none"]

NoInvocation == [cmd |-> "none"]

NoOutcome == [kind |-> "none"]

RunIdle ==
    /\ inv = NoInvocation
    /\ pc = "idle"
    /\ spawned = << >>
    /\ ran = << >>
    /\ outcome = NoOutcome
    /\ idx = 0
    /\ return_code = 0
    /\ completed = 0
    /\ events = << >>
    /\ console = << >>
    /\ results = << >>
    /\ target = EmptyTable
    /\ before = target
    /\ todo = << >>
    /\ prompts = << >>
    /\ writes = << >>

InitPyproject ==
    /\ file \in InitialFiles
    /\ prior = file
    /\ last = NoCommand
    /\ fs = IF file.exists THEN {"pyproject.toml"} ELSE {}
    /\ RunIdle

NextPyproject == PyprojectRuff \/ PyprojectIsort \/ PyprojectMypy

SpecPyproject == InitPyproject /\ [][NextPyproject]_vars

(***************************************************************************)
(* Running the tools (src/maestro/__main__.py).                            *)
(***************************************************************************)
\* a value handed back with `return`
Return(c) == [kind |-> "return", code |-> c]

\* raise typer.Exit(c)
Exit(c) == [kind |-> "exit", code |-> c]

\* raise ValueError(msg), or the FileNotFoundError of read_text
Error(msg) == [kind |-> "error", msg |-> msg]

\* Path(p).exists()
Exists(p) == p \in fs

\* str(line_length)
Str(n) == CASE n = 95 -> "95" [] n = 80 -> "80" [] n = 120 -> "120"

\* run_command that runs the child again when it ended with a non-zero status
RunCommandRetry(cmd, with_exit, status) ==
    [ spawn |-> IF status # 0
                THEN << [argv |-> cmd, status |-> status], [argv |-> cmd, status |-> status] >>
                ELSE << [argv |-> cmd, status |-> status] >>,
      res |-> IF with_exit /\ status # 0 THEN Exit(status) ELSE Return(status) ]

\* run_command(cmd, with_exit) when the child ends with `status`: the
\* processes spawned and what the call hands back
RunCommand(cmd, with_exit, status) ==
    [ spawn |-> << [argv |-> cmd, status |-> status] >>,
      res |-> IF with_exit /\ status # 0 THEN Exit(status) ELSE Return(status) ]

\* a command that raised before it ran anything
Fail(msg) == [spawn |-> << >>, calls |-> << >>, res |-> Error(msg), printed |-> << >>]

\* a command that printed and returned 0 without running anything
Show(text) == [spawn |-> << >>, calls |-> << >>, res |-> Return(0), printed |-> << text >>]

\* return run_command(cmd)
Run(cmd, status) ==
    LET r == RunCommand(cmd, TRUE, status)
    IN  [ spawn |-> r.spawn,
          calls |-> << [argv |-> cmd, with_exit |-> TRUE, status |-> status, res |-> r.res] >>,
          res |-> r.res,
          printed |-> << >> ]

\* cmd += [flag] under a condition
Flag(cond, flag) == IF cond THEN << flag >> ELSE << >>

\* an optional path option: the default when it is not given
OrDefault(option, default) == IF option = "none" THEN default ELSE option

\* black that runs the tool without looking for the src folder
BlackUnchecked(check, line_length, status) ==
    [ spawn |-> << [argv |-> << "black", "-l", Str(line_length), "src" >>, status |-> status] >>,
      calls |-> << [argv |-> << "black", "-l", Str(line_length), "src" >>, with_exit |-> TRUE,
                    status |-> status,
                    res |-> IF status # 0 THEN Exit(status) ELSE Return(status)] >>,
      res |-> IF status # 0 THEN Exit(status) ELSE Return(status),
      printed |-> << >> ]

\* black(check, line_length)
Black(check, line_length, status) ==
    LET cmd == << "black", "-l", Str(line_length) >> \o Flag(check, "--check")
    IN  IF ~Exists("src")
        THEN Fail("No 'src' folder found.")
        ELSE Run(cmd \o << "src" >> \o Flag(Exists("tests"), "tests"), status)

\* isort(check, config, show_config)
Isort(check, config, show_config, status) ==
    LET default_config == "pyproject.toml"
        cfg == OrDefault(config, default_config)
        cmd == << "isort", "--settings-file", cfg >> \o Flag(check, "--check")
                 \o << "src" >> \o Flag(Exists("tests"), "tests")
        r == RunCommand(cmd, FALSE, status)
    IN  IF ~Exists(cfg)
        THEN Fail("The file doesn't exist")
        ELSE IF ~Exists("src")
        THEN Fail("No 'src' folder found.")
        ELSE IF show_config
        THEN IF Exists(default_config) THEN Show(default_config) ELSE Fail("FileNotFoundError")
        ELSE [ spawn |-> r.spawn,
               calls |-> << [argv |-> cmd, with_exit |-> FALSE, status |-> status, res |-> r.res] >>,
               res |-> IF r.res.code = 0 THEN Return(r.res.code) ELSE Exit(r.res.code),
               printed |-> Flag(r.res.code = 0, "Isort done.") ]

\* ruff(fix, config, show_config), on python >= 3.7 (the branch that runs ruff)
Ruff(fix, config, show_config, status) ==
    LET default_config == "pyproject.toml"
        cfg == OrDefault(config, default_config)
        cmd == << "ruff", "check", "--config", cfg >> \o Flag(fix, "--fix")
                 \o << "src" >> \o Flag(Exists("tests"), "tests")
    IN  IF ~Exists(cfg)
        THEN Fail("The file doesn't exist")
        ELSE IF show_config
        THEN IF Exists(default_config) THEN Show(default_config) ELSE Fail("FileNotFoundError")
        ELSE Run(cmd, status)

\* flake8(config, append_config, show_default_config)
Flake8(config, append_config, show_default_config, status) ==
    LET default_config == "cfg/flake8"
        cfg == OrDefault(config, default_config)
        app == OrDefault(append_config, "setup.cfg")
        cmd == << "flake8", "--config", cfg, "--append-config", app, "src", "tests" >>
    IN  IF show_default_config
        THEN IF Exists(default_config) THEN Show(default_config) ELSE Fail("FileNotFoundError")
        ELSE IF ~Exists(cfg)
        THEN Fail("The file doesn't exist")
        ELSE IF ~Exists(app)
        THEN Fail("The file doesn't exist")
        ELSE Run(cmd, status)

\* the --always-true / --always-false flags of mypy
QtFlags(pyqt6, pyside2, pyside6) ==
    IF pyqt6
    THEN << "--always-false=PYQT5", "--always-true=PYQT6",
            "--always-false=PYSIDE2", "--always-false=PYSIDE6" >>
    ELSE IF pyside2
    THEN << "--always-false=PYQT5", "--always-false=PYQT6",
            "--always-true=PYSIDE2", "--always-false=PYSIDE6" >>
    ELSE IF pyside6
    THEN << "--always-false=PYQT5", "--always-false=PYQT6",
            "--always-false=PYSIDE2", "--always-true=PYSIDE6" >>
    ELSE << "--always-true=PYQT5", "--always-false=PYQT6",
            "--always-false=PYSIDE2", "--always-false=PYSIDE6" >>

\* mypy(config_file, strict, pyqt6, pyside2, pyside6, file_or_dir);
\* file_or_dir is [given, files]
Mypy(config_file, strict, pyqt6, pyside2, pyside6, file_or_dir, status) ==
    LET cfg == OrDefault(config_file, "pyproject.toml")
        cmd == << "mypy", "--config-file", cfg, "--pretty", "--warn-unused-configs" >>
                 \o Flag(strict # "none", "--strict")
                 \o QtFlags(pyqt6, pyside2, pyside6)
    IN  IF ~Exists(cfg)
        THEN Fail("The file doesn't exist")
        ELSE IF ~file_or_dir.given
        THEN IF ~Exists("src")
             THEN Fail("No 'src' folder found.")
             ELSE Run(cmd \o << "src" >> \o Flag(Exists("tests/*.py"), "tests"), status)
        ELSE Run(cmd \o file_or_dir.files, status)

(***************************************************************************)
(* One invocation of a command from the command line.                      *)
(***************************************************************************)
ConfigOptions == {"none", "custom.cfg"}

NoFiles == [given |-> FALSE, files |-> << >>]

FileOptions == {NoFiles, [given |-> TRUE, files |-> << "src/pkg/mod.py" >>]}

\* the command ends: r is what it did and handed back
Finish(r) ==
    /\ pc' = "done"
    /\ spawned' = spawned \o r.spawn
    /\ ran' = ran \o r.calls
    /\ outcome' = r.res
    /\ console' = console \o r.printed
    /\ UNCHANGED <<idx, return_code, completed, events, results, fs, cfgVars, scaffoldVars>>

BlackCmd ==
    /\ pc = "idle"
    /\ \E check \in BOOLEAN, line_length \in {80, 95}, status \in ExitStatuses :
        /\ inv' = [cmd |-> "black", check |-> check, line_length |-> line_length]
        /\ Finish(Black(check, line_length, status))

IsortCmd ==
    /\ pc = "idle"
    /\ \E check \in BOOLEAN, config \in ConfigOptions, show_config \in BOOLEAN,
          status \in ExitStatuses :
        /\ inv' = [cmd |-> "isort", check |-> check, config |-> config,
                   show_config |-> show_config]
        /\ Finish(Isort(check, config, show_config, status))

RuffCmd ==
    /\ pc = "idle"
    /\ \E fix \in BOOLEAN, config \in ConfigOptions, show_config \in BOOLEAN,
          status \in ExitStatuses :
        /\ inv' = [cmd |-> "ruff", fix |-> fix, config |-> config,
                   show_config |-> show_config]
        /\ Finish(Ruff(fix, config, show_config, status))

Flake8Cmd ==
    /\ pc = "idle"
    /\ \E config \in ConfigOptions, append_config \in ConfigOptions,
          show_default_config \in BOOLEAN, status \in ExitStatuses :
        /\ inv' = [cmd |-> "flake8", config |-> config, append_config |-> append_config,
                   show_default_config |-> show_default_config]
        /\ Finish(Flake8(config, append_config, show_default_config, status))

MypyCmd ==
    /\ pc = "idle"
    /\ \E config_file \in ConfigOptions, strict \in {"none", "true", "false"},
          pyqt6 \in BOOLEAN, pyside2 \in BOOLEAN, pyside6 \in BOOLEAN,
          file_or_dir \in FileOptions, status \in ExitStatuses :
        /\ inv' = [cmd |-> "mypy", config_file |-> config_file, strict |-> strict,
                   pyqt6 |-> pyqt6, pyside2 |-> pyside2, pyside6 |-> pyside6,
                   file_or_dir |-> file_or_dir]
        /\ Finish(Mypy(config_file, strict, pyqt6, pyside2, pyside6, file_or_dir, status))

(***************************************************************************)
(* The composite run `linting`.                                            *)
(***************************************************************************)
\* progress.add_task(description="Linting", total=4)
LintingTotal == 4

\* the steps with black and isort exchanged
LintingFunctionsSwapped == << "isort", "black", "ruff", "mypy" >>

\* linting_functions on python >= 3.7
LintingFunctions == << "black", "isort", "ruff", "mypy" >>

\* f(): the step called with the defaults of its signature
Step(f, status) ==
    CASE f = "black" -> Black(FALSE, 95, status)
      [] f = "isort" -> Isort(FALSE, "none", FALSE, status)
      [] f = "ruff" -> Ruff(FALSE, "none", FALSE, status)
      [] f = "mypy" -> Mypy("none", "none", FALSE, FALSE, FALSE, NoFiles, status)

\* an entry of the log: a progress call, a call of a step, or a console print
Ev(type, name, label) == [type |-> type, name |-> name, label |-> label]

\* a try that catches every exception of the step and goes on
TrySwallow(res, rc) ==
    [raised |-> FALSE, return_code |-> IF res.kind = "error" THEN rc ELSE res.code]

\* try: return_code = f() / except typer.Exit as e: return_code = e.exit_code;
\* any other exception leaves the loop and linting
TryStep(res, rc) ==
    IF res.kind = "error"
    THEN [raised |-> TRUE, return_code |-> rc]
    ELSE [raised |-> FALSE, return_code |-> res.code]

\* progress.advance(task) outside the branch
AdvanceAlways(n, rc) == n + 1

\* progress.advance(task) in the branch return_code == 0
Advance(n, rc) == IF rc = 0 THEN n + 1 ELSE n

\* the progress updates after the step: "<f> Ok", advance and refresh, or "<f> failed"
StepReport(f, rc) ==
    IF rc = 0
    THEN << Ev("description", f, "Ok"), Ev("advance", f, ""), Ev("refresh", "", "") >>
    ELSE << Ev("description", f, "failed") >>

\* the loop without its `break`
NextPositionNoBreak(i, rc) ==
    IF i < Len(LintingFunctions)
    THEN [pc |-> "loop", idx |-> i + 1]
    ELSE [pc |-> "after_loop", idx |-> i]

\* where the loop goes after step i: the next step, or out of the loop by
\* `break` or by exhaustion
NextPosition(i, rc) ==
    IF rc = 0 /\ i < Len(LintingFunctions)
    THEN [pc |-> "loop", idx |-> i + 1]
    ELSE [pc |-> "after_loop", idx |-> i]

\* the end of linting after the loop: what is reported and handed back
Epilogue(rc) ==
    IF rc = 0
    THEN [ events |-> << Ev("description", "Linting", "Ok"), Ev("refresh", "", ""),
                         Ev("print", "", "Nice!") >>,
           res |-> Return(rc) ]
    ELSE [ events |-> << Ev("print", "", "Oh no!!") >>,
           res |-> Exit(rc) ]

LintingEnter ==
    /\ pc = "idle"
    /\ inv' = [cmd |-> "linting"]
    /\ pc' = "loop"
    /\ idx' = 1
    /\ return_code' = 0
    /\ completed' = 0
    /\ events' = << Ev("add_task", "Linting", "") >>
    /\ UNCHANGED <<spawned, ran, outcome, console, results, fs, cfgVars, scaffoldVars>>

\* one iteration of `for f in linting_functions`
LintingStep ==
    /\ pc = "loop"
    /\ \E status \in ExitStatuses :
        LET f == LintingFunctions[idx]
            r == Step(f, status)
            t == TryStep(r.res, return_code)
            called == << Ev("description", f, "start"), Ev("call", f, "") >>
        IN  /\ spawned' = spawned \o r.spawn
            /\ ran' = ran \o r.calls
            /\ console' = console \o r.printed
            /\ results' = Append(results, [step |-> f, res |-> r.res])
            /\ return_code' = t.return_code
            /\ IF t.raised
               THEN /\ pc' = "done"
                    /\ outcome' = r.res
                    /\ events' = events \o called
                    /\ UNCHANGED <<idx, completed>>
               ELSE /\ pc' = NextPosition(idx, t.return_code).pc
                    /\ idx' = NextPosition(idx, t.return_code).idx
                    /\ completed' = Advance(completed, t.return_code)
                    /\ events' = events \o called \o StepReport(f, t.return_code)
                    /\ UNCHANGED outcome
    /\ UNCHANGED <<inv, fs, cfgVars, scaffoldVars>>

LintingFinish ==
    /\ pc = "after_loop"
    /\ pc' = "done"
    /\ events' = events \o Epilogue(return_code).events
    /\ outcome' = Epilogue(return_code).res
    /\ UNCHANGED <<inv, idx, return_code, completed, spawned, ran, console, results, fs,
                   cfgVars, scaffoldVars>>

(***************************************************************************)
(* The working directory of an invocation.                                 *)
(***************************************************************************)
Paths == {"pyproject.toml", "src", "tests", "tests/*.py", "setup.cfg", "cfg/flake8",
          "custom.cfg"}

Directories == { d \in SUBSET Paths : "tests/*.py" \in d => "tests" \in d }

Init ==
    /\ fs \in Directories
    /\ file = IF "pyproject.toml" \in fs THEN TomlDump(EmptyTable) ELSE NoFile
    /\ prior = file
    /\ last = NoCommand
    /\ RunIdle

Next ==
    \/ BlackCmd
    \/ IsortCmd
    \/ RuffCmd
    \/ Flake8Cmd
    \/ MypyCmd
    \/ LintingEnter
    \/ LintingStep
    \/ LintingFinish

Spec == Init /\ [][Next]_vars

(***************************************************************************)
(* Properties of the pyproject commands (checked under SpecPyproject).     *)
(***************************************************************************)
\* the table at `path` of document d, the empty table where it is missing
TableAt(d, path) ==
    IF path = << >> THEN d
    ELSE IF ~Has(d, path[1]) THEN EmptyTable
    ELSE IF Len(path) = 1 THEN d[path[1]]
    ELSE IF ~Has(d[path[1]], path[2]) THEN EmptyTable
    ELSE IF Len(path) = 2 THEN d[path[1]][path[2]]
    ELSE IF ~Has(d[path[1]][path[2]], path[3]) THEN EmptyTable
    ELSE d[path[1]][path[2]][path[3]]

\* document d with the table at `path` replaced by t, the tables on the way created
WithTableAt(d, path, t) ==
    IF path = << >> THEN t
    ELSE IF Len(path) = 1 THEN Put(d, path[1], t)
    ELSE IF Len(path) = 2
    THEN Put(d, path[1], Put(TableAt(d, << path[1] >>), path[2], t))
    ELSE Put(d, path[1],
             Put(TableAt(d, << path[1] >>), path[2],
                 Put(TableAt(d, << path[1], path[2] >>), path[3], t)))

\* the sections a command writes: the path of each and the keys it sets there
Sections(cmd) ==
    CASE cmd = "ruff" ->
           << [ path |-> << "tool", "ruff" >>,
                values |-> [ x \in {"target-version", "line-length"} |->
                               IF x = "line-length" THEN 95 ELSE "py37" ] ],
              [ path |-> << "tool", "ruff", "lint" >>,
                values |-> [ select |-> RuffSelect, ignore |-> RuffIgnore ] ] >>
      [] cmd = "isort" ->
           << [ path |-> << "tool", "isort" >>, values |-> IsortTable ] >>
      [] cmd = "mypy" ->
           << [ path |-> << "tool", "mypy" >>, values |-> [ overrides |-> MypyOverrides ] ] >>

\* one of the keys the command sets is already in document d
KeyPresent(cmd, d) ==
    \E i \in 1..Len(Sections(cmd)) :
        \E k \in DOMAIN Sections(cmd)[i].values : Has(TableAt(d, Sections(cmd)[i].path), k)

\* every key the command sets holds the command's value in document d
SectionWritten(cmd, d) ==
    \A i \in 1..Len(Sections(cmd)) :
        \A k \in DOMAIN Sections(cmd)[i].values :
            /\ Has(TableAt(d, Sections(cmd)[i].path), k)
            /\ TableAt(d, Sections(cmd)[i].path)[k] = Sections(cmd)[i].values[k]

\* document d with exactly the keys of the first n sections of the command set
ApplySections(cmd, d, n) ==
    IF n = 0 THEN d
    ELSE IF n = 1
    THEN WithTableAt(d, Sections(cmd)[1].path,
                     Merge(TableAt(d, Sections(cmd)[1].path), Sections(cmd)[1].values))
    ELSE LET d1 == WithTableAt(d, Sections(cmd)[1].path,
                               Merge(TableAt(d, Sections(cmd)[1].path), Sections(cmd)[1].values))
         IN  WithTableAt(d1, Sections(cmd)[2].path,
                         Merge(TableAt(d1, Sections(cmd)[2].path), Sections(cmd)[2].values))

\* C3: pyproject ruff / pyproject isort run on a file that already holds one
\* of the keys it sets: without --forced it fails with a conflict and the
\* file is left as it was; with --forced it succeeds and every key it sets
\* holds the command's value.
C3_ConflictOrOverwrite ==
    (last.cmd \in {"ruff", "isort"} /\ prior.exists /\ KeyPresent(last.cmd, prior.doc))
    => IF last.forced
       THEN last.result = "ok" /\ file.exists /\ SectionWritten(last.cmd, file.doc)
       ELSE last.result = "conflict" /\ file = prior

\* pyproject ruff without --forced stopped at `select` of tool.ruff.lint, after
\* it had set target-version and line-length in the document it holds
C3_Witness ==
    /\ last = [cmd |-> "ruff", forced |-> FALSE, result |-> "conflict", key |-> "select"]
    /\ ~Has(TableAt(prior.doc, << "tool", "ruff" >>), "target-version")
    /\ TableAt(prior.doc, << "tool", "ruff", "lint" >>)["select"] = OldValue("select")
    /\ file = prior

\* C4: whenever forced is true or none of the keys the command sets exists,
\* the command succeeds and the document is the prior one with exactly those
\* keys set, every other key kept.
C4_ExactlyTheKeys ==
    (/\ last.cmd \in {"ruff", "isort", "mypy"}
     /\ prior.exists
     /\ (last.forced \/ ~KeyPresent(last.cmd, prior.doc)))
    => /\ last.result = "ok"
       /\ file.exists
       /\ file.doc = ApplySections(last.cmd, prior.doc, Len(Sections(last.cmd)))

\* C5: every command either succeeds and its section is in the file, or
\* fails and the file is exactly the one it started on, whatever commands
\* ran before it.
C5_SucceedOrUntouched ==
    last.cmd # "none"
    => IF last.result = "ok"
       THEN file.exists /\ SectionWritten(last.cmd, file.doc)
       ELSE file = prior

\* pyproject isort failed on a file that an earlier pyproject ruff had
\* written, and the section of ruff is still there
C5_Witness ==
    /\ last.cmd = "isort"
    /\ last.result = "conflict"
    /\ prior.exists
    /\ ~prior.comments
    /\ SectionWritten("ruff", prior.doc)
    /\ SectionWritten("ruff", file.doc)
    /\ Has(TableAt(file.doc, << "tool", "isort" >>), "profile")

\* C10: a command run where pyproject.toml does not exist fails and no file
\* exists afterwards.
C10_MissingFileFails ==
    (last.cmd # "none" /\ ~prior.exists)
    => last.result = "notfound" /\ ~file.exists /\ file = prior

\* each of the three commands is refused where the file is missing
C10_Witness ==
    /\ last.cmd = "mypy"
    /\ ~prior.exists
    /\ last.result = "notfound"

(***************************************************************************)
(* Properties of the commands and of linting (checked under Spec).         *)
(***************************************************************************)
\* the order of the steps the claims name
ClaimedOrder == << "black", "isort", "ruff", "mypy" >>

\* the steps called so far, in order
Invoked ==
    LET calls == SelectSeq(events, LAMBDA e : e.type = "call")
    IN  [i \in 1..Len(calls) |-> calls[i].name]

\* the tools spawned so far, in order
SpawnedTools == [i \in 1..Len(spawned) |-> spawned[i].argv[1]]

\* step j yielded a status (it did not raise an error), and the status
Yielded(j) == j \in 1..Len(results) /\ results[j].res.kind \in {"return", "exit"}

Zero(j) == Yielded(j) /\ results[j].res.code = 0

NonZero(j) == Yielded(j) /\ results[j].res.code # 0

\* step k is the first to yield a non-zero status
FirstNonZero(k) == NonZero(k) /\ \A j \in 1..(k - 1) : Zero(j)

\* the outcome is a failure for the caller: an exception, or a non-zero exit
Failure(o) == o.kind = "error" \/ (o.kind = "exit" /\ o.code # 0)

\* C1: when step k is the first to yield a non-zero status, steps 1..k were
\* called once each in order, no later step is ever called, and linting
\* hands step k's status to its caller.
C1_FirstFailureStops ==
    \A k \in 1..Len(ClaimedOrder) :
        (inv.cmd = "linting" /\ FirstNonZero(k))
        => /\ Invoked = SubSeq(ClaimedOrder, 1, k)
           /\ SpawnedTools = SubSeq(ClaimedOrder, 1, k)
           /\ Len(results) = k
           /\ pc \in {"after_loop", "done"}
           /\ pc = "done" => outcome = Exit(results[k].res.code)

\* the scenario of the lint step failing with status 1
C1_Witness ==
    /\ inv.cmd = "linting"
    /\ pc = "done"
    /\ FirstNonZero(3)
    /\ results[3].res.code = 1
    /\ outcome = Exit(1)

\* C2: when every step yields 0, linting returns 0 and black, isort, ruff,
\* mypy were each called once, in that order.
C2_AllZero ==
    (inv.cmd = "linting" /\ pc = "done" /\ \A j \in 1..Len(results) : Zero(j))
    => /\ outcome = Return(0)
       /\ Invoked = ClaimedOrder
       /\ SpawnedTools = ClaimedOrder

C2_Witness ==
    /\ inv.cmd = "linting"
    /\ pc = "done"
    /\ Len(results) = 4
    /\ \A j \in 1..4 : Zero(j)
    /\ outcome = Return(0)

\* the positions of the log where step f is called
CallsOf(f) == { i \in 1..Len(events) : events[i] = Ev("call", f, "") }

\* the positions of the log where step f is reported Ok or failed
ReportsOf(f) ==
    { i \in 1..Len(events) :
        events[i] \in {Ev("description", f, "Ok"), Ev("description", f, "failed")} }

PENDING == pc = "idle"

RUNNING(i) == pc = "loop" /\ idx = i

FAILED == pc = "after_loop" /\ return_code # 0

SUCCEEDED == pc = "after_loop" /\ return_code = 0

\* the step notifications, the progress counter and the overall notification
C6_Notifications ==
    inv.cmd = "linting" =>
    /\ \A i \in 1..Len(events) :
          events[i].type = "call"
          => i > 1 /\ events[i - 1] = Ev("description", events[i].name, "start")
    /\ \A j \in 1..Len(results) :
          /\ Cardinality(CallsOf(results[j].step)) = 1
          /\ Yielded(j)
             => /\ Cardinality(ReportsOf(results[j].step)) = 1
                /\ \A c \in CallsOf(results[j].step), r \in ReportsOf(results[j].step) :
                      /\ c < r
                      /\ events[r].label = (IF results[j].res.code = 0 THEN "Ok" ELSE "failed")
          /\ ~Yielded(j) => ReportsOf(results[j].step) = {}
    /\ completed = Cardinality({ j \in 1..Len(results) : Zero(j) })
    /\ completed = Cardinality({ i \in 1..Len(events) : events[i].type = "advance" })
    /\ completed <= LintingTotal
    /\ Ev("description", "Linting", "Ok") \in { events[i] : i \in 1..Len(events) }
       => Len(results) = Len(ClaimedOrder) /\ \A j \in 1..Len(results) : Zero(j)
    /\ pc = "done" /\ Len(results) = Len(ClaimedOrder) /\ (\A j \in 1..Len(results) : Zero(j))
       => Ev("description", "Linting", "Ok") \in { events[i] : i \in 1..Len(events) }

\* the moves of the state machine; FAILED and SUCCEEDED are left only to end
\* the run, and no step is called from them or after them
C6_Moves ==
    /\ (PENDING /\ inv'.cmd = "linting") => RUNNING(1)'
    /\ inv.cmd = "linting" =>
       /\ \A i \in 1..Len(ClaimedOrder) :
             RUNNING(i) => \/ RUNNING(i + 1)' /\ Zero(i)'
                           \/ FAILED' /\ NonZero(i)'
                           \/ SUCCEEDED' /\ Zero(i)' /\ i = Len(ClaimedOrder)
                           \/ pc' = "done" /\ results'[i].res.kind = "error"
       /\ RUNNING(Len(ClaimedOrder)) => ~(pc' = "loop")
       /\ (FAILED \/ SUCCEEDED \/ pc = "done")
          => /\ pc' = "done"
             /\ results' = results
             /\ spawned' = spawned
             /\ Invoked' = Invoked

\* C6: linting follows PENDING -> RUNNING(1) -> ... with FAILED and
\* SUCCEEDED terminal: "<step> start" precedes the call of the step, exactly
\* one of "<step> Ok" / "<step> failed" follows a step that yielded a
\* status, the counter counts the steps that yielded 0 and never exceeds 4,
\* "Linting Ok" is emitted exactly when all four steps yielded 0, and no
\* step is called once FAILED or SUCCEEDED is reached.
C6_StateMachine == [](C6_Notifications) /\ [][C6_Moves]_vars

\* ruff failed after black and isort passed: two steps counted, the run ended
C6_Witness ==
    /\ inv.cmd = "linting"
    /\ pc = "done"
    /\ completed = 2
    /\ events[Len(events) - 1] = Ev("description", "ruff", "failed")
    /\ outcome = Exit(2)

\* C7: whatever way a step fails (a non-zero status, or a ValueError for a
\* missing config file or src folder), it is the last step called, it is
\* not reported Ok, and linting ends in a failure for its caller.
C7_FailureSurfaces ==
    \A j \in 1..Len(results) :
        (inv.cmd = "linting" /\ (NonZero(j) \/ results[j].res.kind = "error"))
        => /\ j = Len(results)
           /\ Invoked = SubSeq(ClaimedOrder, 1, j)
           /\ pc \in {"after_loop", "done"}
           /\ Ev("description", results[j].step, "Ok") \notin { events[i] : i \in 1..Len(events) }
           /\ Ev("print", "", "Nice!") \notin { events[i] : i \in 1..Len(events) }
           /\ pc = "done" => Failure(outcome)
           /\ (pc = "done" /\ results[j].res.kind = "error") => outcome = results[j].res

\* isort raised for the missing pyproject.toml after black had passed
C7_Witness ==
    /\ inv.cmd = "linting"
    /\ pc = "done"
    /\ Len(results) = 2
    /\ results[1].res = Return(0)
    /\ results[2] = [step |-> "isort", res |-> Error("The file doesn't exist")]
    /\ outcome = Error("The file doesn't exist")

\* every call of run_command spawned its argv exactly once
SpawnedOnce ==
    /\ Len(spawned) = Len(ran)
    /\ \A i \in 1..Len(ran) : spawned[i] = [argv |-> ran[i].argv, status |-> ran[i].status]

\* C8 as stated: run_command(argv) spawns the child once and returns the
\* child's exit status, whatever the status is.
C8_AlwaysReturns ==
    /\ SpawnedOnce
    /\ \A i \in 1..Len(ran) : ran[i].res = Return(ran[i].status)

\* C8 amended: run_command spawns the child once and hands the child's exit
\* status on unmodified: returned when the status is 0 or with_exit is
\* false, carried by the typer.Exit it raises when with_exit is true and the
\* status is not 0.
C8_StatusVerbatim ==
    /\ SpawnedOnce
    /\ \A i \in 1..Len(ran) :
          /\ ran[i].res.code = ran[i].status
          /\ ran[i].res.kind = (IF ran[i].with_exit /\ ran[i].status # 0 THEN "exit" ELSE "return")

\* black ran the tool, the tool ended with status 2 and run_command raised
\* typer.Exit(2)
C8_Witness ==
    /\ inv.cmd = "black"
    /\ pc = "done"
    /\ Len(ran) = 1
    /\ ran[1].status = 2
    /\ ran[1].res = Exit(2)
    /\ Len(spawned) = 1

\* the paths the invoked command requires: the configuration file it uses or
\* shows, and the src folder where it looks for it
Required ==
    CASE inv.cmd = "black" -> {"src"}
      [] inv.cmd = "isort" ->
           {OrDefault(inv.config, "pyproject.toml"), "src"}
           \cup (IF inv.show_config THEN {"pyproject.toml"} ELSE {})
      [] inv.cmd = "ruff" ->
           {OrDefault(inv.config, "pyproject.toml")}
           \cup (IF inv.show_config THEN {"pyproject.toml"} ELSE {})
      [] inv.cmd = "flake8" ->
           IF inv.show_default_config
           THEN {"cfg/flake8"}
           ELSE {OrDefault(inv.config, "cfg/flake8"), OrDefault(inv.append_config, "setup.cfg")}
      [] inv.cmd = "mypy" ->
           {OrDefault(inv.config_file, "pyproject.toml")}
           \cup (IF inv.file_or_dir.given THEN {} ELSE {"src"})
      [] OTHER -> {}

Rerun == last.result = "ok" /\ last'.cmd = last.cmd

\* the re-run of a step, without --forced and with it
C13_RerunStep ==
    /\ (Rerun /\ ~last'.forced)
       => /\ last'.result = "conflict"
          /\ file' = file
    /\ (Rerun /\ last'.forced /\ last.cmd \in {"ruff", "isort"})
       => /\ last'.result = "ok"
          /\ file' = file
          /\ file'.doc = file.doc

\* C13: after a successful pyproject ruff, isort or mypy, the same command
\* run again without --forced fails with a conflict and leaves the file
\* unchanged; pyproject ruff or isort run again with --forced succeeds and
\* the document is the one of the first run.
C13_RerunOnOwnOutput == [][C13_RerunStep]_vars

\* pyproject mypy was refused on the file an earlier pyproject mypy had
\* written
C13_Witness ==
    /\ last.cmd = "mypy"
    /\ last.result = "conflict"
    /\ last.key = "tool.mypy"
    /\ SectionWritten("mypy", prior.doc)
    /\ file = prior

(***************************************************************************)
(* The test command (src/maestro/__main__.py, test).                       *)
(***************************************************************************)
\* a path is [parts, stem, suffix]: the directories, and the name split at
\* its suffix ("" for a name without one)
PathName(p) == p.stem \o p.suffix

\* "/".join of a non-empty sequence of strings, and ".".join
JoinSlash(parts) ==
    IF Len(parts) = 1 THEN parts[1]
    ELSE IF Len(parts) = 2 THEN parts[1] \o "/" \o parts[2]
    ELSE parts[1] \o "/" \o parts[2] \o "/" \o parts[3]

JoinDot(parts) ==
    IF Len(parts) = 1 THEN parts[1]
    ELSE IF Len(parts) = 2 THEN parts[1] \o "." \o parts[2]
    ELSE parts[1] \o "." \o parts[2] \o "." \o parts[3]

\* str(cov_filepath)
PathStr(p) == JoinSlash(Append(p.parts, PathName(p)))

\* suffix.replace(".py", "")
StripPy(suffix) ==
    CASE suffix = ".py" -> ""
      [] suffix = ".pyi" -> "i"
      [] OTHER -> suffix

\* str(Path(*cov_filepath.parts[1:])) with the separators replaced by "."
\* and ".py" removed
CovImport(p) == JoinDot(Append(Tail(p.parts), p.stem \o StripPy(p.suffix)))

\* the --cov option of one path of --coverage-only
CovOnly(p) ==
    IF PathStr(p) \in fs
    THEN "--cov=" \o CovImport(p)
    ELSE "--cov=" \o PathStr(p)

\* the --cov options of the paths of --coverage-only, in order
CovOnlyAll(paths) == [i \in 1..Len(paths) |-> CovOnly(paths[i])]

\* "xml" in map(str, coverage_report)
Reports(kind, coverage_report) ==
    \E i \in 1..Len(coverage_report) : coverage_report[i] = kind

\* the coverage options of the command; the options not given are
\* [given |-> FALSE, ...]
CoverageFlags(coverage, coverage_report, coverage_only) ==
    IF coverage \/ coverage_report.given \/ coverage_only.given
    THEN (IF coverage \/ coverage_report.given
          THEN << "--cov=src", "--cov-report=term-missing:skip-covered" >>
          ELSE CovOnlyAll(coverage_only.paths)
               \o << "--cov-report=term-missing:skip-covered" >>)
         \o (IF coverage_report.given
             THEN (IF Reports("xml", coverage_report.kinds)
                   THEN << "--cov-report=xml", "--junitxml=report.xml" >>
                   ELSE << >>)
                  \o Flag(Reports("html", coverage_report.kinds), "--cov-report=html")
             ELSE << >>)
    ELSE << >>

\* the head of the command of a test that does not look at only_failed
TestCommandNoLf(parallel, only_failed) ==
    << "pytest", "-vv" >>
    \o (IF parallel THEN << "-n", "auto", "--dist", "loadfile" >> ELSE << >>)

\* cmd = ["pytest", "-vv"] ... if only_failed: cmd += ["--lf"]
TestCommandHead(parallel, only_failed) ==
    << "pytest", "-vv" >>
    \o (IF parallel THEN << "-n", "auto", "--dist", "loadfile" >> ELSE << >>)
    \o Flag(only_failed, "--lf")

\* if file_or_dir is None: cmd += ["tests"] else: cmd += file_or_dir
TestLocations(file_or_dir) ==
    IF ~file_or_dir.given THEN << "tests" >> ELSE file_or_dir.files

\* test(file_or_dir, parallel, only_failed, coverage, coverage_report, coverage_only)
Test(file_or_dir, parallel, only_failed, coverage, coverage_report, coverage_only, status) ==
    Run(TestCommandHead(parallel, only_failed)
          \o CoverageFlags(coverage, coverage_report, coverage_only)
          \o TestLocations(file_or_dir),
        status)

TestFileOptions ==
    { NoFiles,
      [given |-> TRUE, files |-> << "tests/test_mod.py" >>],
      [given |-> TRUE, files |-> << "src/pkg", "tests" >>] }

NoReport == [given |-> FALSE, kinds |-> << >>]

ReportOptions ==
    { NoReport } \cup
    { [given |-> TRUE, kinds |-> k] : k \in { << "xml" >>, << "html" >>, << "html", "xml" >> } }

NoCoverageOnly == [given |-> FALSE, paths |-> << >>]

ModulePath == [parts |-> << "src", "pkg" >>, stem |-> "mod", suffix |-> ".py"]

StubPath == [parts |-> << "src", "pkg" >>, stem |-> "mod", suffix |-> ".pyi"]

PackagePath == [parts |-> << "src" >>, stem |-> "pkg", suffix |-> ""]

CoverageOnlyOptions ==
    { NoCoverageOnly } \cup
    { [given |-> TRUE, paths |-> ps] :
        ps \in { << ModulePath >>, << StubPath >>, << PackagePath, ModulePath >> } }

TestCmd ==
    /\ pc = "idle"
    /\ \E file_or_dir \in TestFileOptions, parallel \in BOOLEAN, only_failed \in BOOLEAN,
          coverage \in BOOLEAN, coverage_report \in ReportOptions,
          coverage_only \in CoverageOnlyOptions, status \in ExitStatuses :
        /\ inv' = [cmd |-> "test", file_or_dir |-> file_or_dir, parallel |-> parallel,
                   only_failed |-> only_failed, coverage |-> coverage,
                   coverage_report |-> coverage_report, coverage_only |-> coverage_only]
        /\ Finish(Test(file_or_dir, parallel, only_failed, coverage, coverage_report,
                       coverage_only, status))

\* the working directory of the test command: the files --coverage-only may name
TestPaths == {"tests", "src/pkg/mod.py", "src/pkg/mod.pyi"}

InitTest ==
    /\ fs \in SUBSET TestPaths
    /\ file = NoFile
    /\ prior = file
    /\ last = NoCommand
    /\ RunIdle

NextTest == TestCmd

SpecTest == InitTest /\ [][NextTest]_vars

\* the number of times word w is in the command line cmd
Count(cmd, w) == Cardinality({ i \in 1..Len(cmd) : cmd[i] = w })

\* the last n words of the command line cmd
LastWords(cmd, n) == SubSeq(cmd, Len(cmd) - n + 1, Len(cmd))

\* C12: the command the test command builds holds --lf exactly when
\* only_failed is true, and ends with the default location `tests` exactly
\* when no file/directory list is given (with a list it ends with the list),
\* whatever the other options are.
C12_LfAndDefaultLocation ==
    (inv.cmd = "test" /\ pc = "done")
    => /\ Len(ran) = 1
       /\ Len(spawned) = 1
       /\ spawned[1].argv = ran[1].argv
       /\ Count(ran[1].argv, "--lf") = (IF inv.only_failed THEN 1 ELSE 0)
       /\ IF inv.file_or_dir.given
          THEN /\ LastWords(ran[1].argv, Len(inv.file_or_dir.files)) = inv.file_or_dir.files
               /\ Count(ran[1].argv, "tests") = Count(inv.file_or_dir.files, "tests")
          ELSE /\ LastWords(ran[1].argv, 1) = << "tests" >>
               /\ Count(ran[1].argv, "tests") = 1

\* the scenario: only_failed and no file/directory list
C12_Witness ==
    /\ inv.cmd = "test"
    /\ pc = "done"
    /\ inv.only_failed
    /\ ~inv.file_or_dir.given
    /\ ~inv.parallel /\ ~inv.coverage /\ ~inv.coverage_report.given /\ ~inv.coverage_only.given
    /\ ran[1].argv = << "pytest", "-vv", "--lf", "tests" >>

(***************************************************************************)
(* The scaffold commands vscode and gitlab (src/maestro/__main__.py).      *)
(* The template files are data of the package: the model takes two files   *)
(* in maestro/vscode, two in maestro/cfg (one of them flake8) and three    *)
(* in two subfolders of maestro/gitlab.                                    *)
(***************************************************************************)
\* a template file: where it is in the package, and the folder and name of
\* the file it is copied to
Template(src, stem, dir, name) == [src |-> src, stem |-> stem, dir |-> dir, name |-> name]

VscodeDir ==
    { Template("vscode/settings.json", "settings", ".vscode", "settings.json"),
      Template("vscode/extensions.json", "extensions", ".vscode", "extensions.json") }

CfgDir ==
    { Template("cfg/flake8", "flake8", ".vscode", "flake8"),
      Template("cfg/pylintrc", "pylintrc", ".vscode", "pylintrc") }

GitlabIssues ==
    { Template("gitlab/issue_templates/bug.md", "bug", ".gitlab/issue_templates", "bug.md"),
      Template("gitlab/issue_templates/feature.md", "feature", ".gitlab/issue_templates",
               "feature.md") }

GitlabMergeRequests ==
    { Template("gitlab/merge_request_templates/default.md", "default",
               ".gitlab/merge_request_templates", "default.md") }

\* Path.iterdir() yields the entries of a directory in an arbitrary order
IterDir(entries) ==
    { order \in [1..Cardinality(entries) -> entries] :
        \A i, j \in 1..Cardinality(entries) : order[i] = order[j] => i = j }

\* itertools.chain(maestro_vscode_path.iterdir(), maestro_cfg_path.iterdir())
VscodeOrders == { v \o c : v \in IterDir(VscodeDir), c \in IterDir(CfgDir) }

\* for maestro_gitlab_subfolder in ...iterdir(): for maestro_gitlab_file in ...iterdir()
GitlabOrders ==
    { i \o m : i \in IterDir(GitlabIssues), m \in IterDir(GitlabMergeRequests) }
    \cup { m \o i : i \in IterDir(GitlabIssues), m \in IterDir(GitlabMergeRequests) }

\* Path(vscode_path, maestro_file.name), Path(gitlab_subfolder, maestro_gitlab_file.name)
TargetPath(t) == t.dir \o "/" \o t.name

\* Path.exists() of a path under .vscode or .gitlab
TargetExists(tg, path) == tg[path] # "absent"

\* a scaffold command that never asks
AsksNobody(forced, exists) == FALSE

\* if not forced and vscode_file.exists(): can_replace = typer.confirm(...)
AsksUser(forced, exists) == ~forced /\ exists

\* can_replace / can_write: the answer where the user is asked, True otherwise
CanReplace(forced, exists, answer) == IF AsksUser(forced, exists) THEN answer ELSE TRUE

\* the question asked about a path, if one is asked
Asked(forced, exists, path, answer) ==
    IF AsksUser(forced, exists) THEN << [path |-> path, answer |-> answer] >> ELSE << >>

\* gitlab_file.parent.mkdir(parents=True, exist_ok=True)
MkdirParents(tg, dir) == [p \in DOMAIN tg |-> IF p \in {".gitlab", dir} THEN "dir" ELSE tg[p]]

\* vscode_file.write_text(maestro_file.read_text())
WriteText(tg, path, t) == [p \in DOMAIN tg |-> IF p = path THEN t.src ELSE tg[p]]

\* one iteration of the loop of vscode on template t, the user answering
\* `answer` if asked
VscodeFile(t, forced, answer, tg) ==
    LET path == TargetPath(t)
        exists == TargetExists(tg, path)
        can_replace == CanReplace(forced, exists, answer)
    IN  IF t.stem = "flake8"
        THEN [target |-> tg, asked |-> << >>, written |-> << >>, printed |-> << >>,
              raised |-> FALSE]
        ELSE IF can_replace /\ ~TargetExists(tg, t.dir)
        THEN [target |-> tg, asked |-> Asked(forced, exists, path, answer),
              written |-> << >>, printed |-> << >>, raised |-> TRUE]
        ELSE IF can_replace
        THEN [target |-> WriteText(tg, path, t),
              asked |-> Asked(forced, exists, path, answer),
              written |-> << [path |-> path, existed |-> exists] >>,
              printed |-> << path \o " has been replaced." >>, raised |-> FALSE]
        ELSE [target |-> tg, asked |-> Asked(forced, exists, path, answer),
              written |-> << >>,
              printed |-> << path \o " has not been replaced." >>, raised |-> FALSE]

\* one iteration of the inner loop of gitlab on template t
GitlabFile(t, forced, answer, tg) ==
    LET path == TargetPath(t)
        exists == TargetExists(tg, path)
        can_write == CanReplace(forced, exists, answer)
        tg1 == IF ~TargetExists(tg, t.dir) THEN MkdirParents(tg, t.dir) ELSE tg
    IN  IF can_write
        THEN [target |-> WriteText(tg1, path, t),
              asked |-> Asked(forced, exists, path, answer),
              written |-> << [path |-> path, existed |-> exists] >>,
              printed |-> << path \o (IF exists THEN " has been replaced."
                                                ELSE " has been created.") >>,
              raised |-> FALSE]
        ELSE [target |-> tg1, asked |-> Asked(forced, exists, path, answer),
              written |-> << >>,
              printed |-> << path \o " has not been replaced." >>, raised |-> FALSE]

\* the command starts: the order in which iterdir yields the templates is fixed here
Vscode ==
    /\ pc = "idle"
    /\ \E forced \in BOOLEAN, order \in VscodeOrders :
        /\ inv' = [cmd |-> "vscode", forced |-> forced]
        /\ todo' = order
    /\ pc' = "scaffold"
    /\ before' = target
    /\ UNCHANGED <<target, prompts, writes, fs, spawned, ran, outcome, idx, return_code,
                   completed, events, console, results, cfgVars>>

Gitlab ==
    /\ pc = "idle"
    /\ \E forced \in BOOLEAN, order \in GitlabOrders :
        /\ inv' = [cmd |-> "gitlab", forced |-> forced]
        /\ todo' = order
    /\ pc' = "scaffold"
    /\ before' = target
    /\ UNCHANGED <<target, prompts, writes, fs, spawned, ran, outcome, idx, return_code,
                   completed, events, console, results, cfgVars>>

\* the effect of one iteration r on the state
Iteration(r) ==
    /\ target' = r.target
    /\ prompts' = prompts \o r.asked
    /\ writes' = writes \o r.written
    /\ console' = console \o r.printed
    /\ todo' = Tail(todo)
    /\ IF r.raised
       THEN pc' = "done" /\ outcome' = Error("FileNotFoundError")
       ELSE UNCHANGED <<pc, outcome>>
    /\ UNCHANGED <<inv, before, fs, spawned, ran, idx, return_code, completed, events,
                   results, cfgVars>>

VscodeStep ==
    /\ pc = "scaffold"
    /\ inv.cmd = "vscode"
    /\ todo # << >>
    /\ \E answer \in BOOLEAN : Iteration(VscodeFile(Head(todo), inv.forced, answer, target))

GitlabStep ==
    /\ pc = "scaffold"
    /\ inv.cmd = "gitlab"
    /\ todo # << >>
    /\ \E answer \in BOOLEAN : Iteration(GitlabFile(Head(todo), inv.forced, answer, target))

\* return 0 after the loop
ScaffoldReturn ==
    /\ pc = "scaffold"
    /\ todo = << >>
    /\ pc' = "done"
    /\ outcome' = Return(0)
    /\ UNCHANGED <<inv, target, before, todo, prompts, writes, console, fs, spawned, ran,
                   idx, return_code, completed, events, results, cfgVars>>

\* the folders and files the commands look at
TargetFolders == {".vscode", ".gitlab", ".gitlab/issue_templates",
                  ".gitlab/merge_request_templates"}

AllTemplates == VscodeDir \cup CfgDir \cup GitlabIssues \cup GitlabMergeRequests

TargetFiles == { TargetPath(t) : t \in AllTemplates }

\* the folder a path is in
ParentOf(path) ==
    IF path \in TargetFolders
    THEN (IF path \in {".vscode", ".gitlab"} THEN path ELSE ".gitlab")
    ELSE (CHOOSE t \in AllTemplates : TargetPath(t) = path).dir

\* the working directory before the command: every file is absent or holds
\* what the user wrote, and a file or folder that exists is in a folder that exists
InitialTargets ==
    { tg \in [TargetFolders \cup TargetFiles -> {"absent", "dir", "user"}] :
        /\ \A p \in TargetFolders : tg[p] \in {"absent", "dir"}
        /\ \A p \in TargetFiles : tg[p] \in {"absent", "user"}
        /\ \A p \in TargetFolders \cup TargetFiles :
              tg[p] # "absent" => tg[ParentOf(p)] = "dir" }

InitScaffold ==
    /\ target \in InitialTargets
    /\ before = target
    /\ todo = << >>
    /\ prompts = << >>
    /\ writes = << >>
    /\ fs = {}
    /\ file = NoFile
    /\ prior = file
    /\ last = NoCommand
    /\ inv = NoInvocation
    /\ pc = "idle"
    /\ spawned = << >>
    /\ ran = << >>
    /\ outcome = NoOutcome
    /\ idx = 0
    /\ return_code = 0
    /\ completed = 0
    /\ events = << >>
    /\ console = << >>
    /\ results = << >>

NextScaffold == Vscode \/ Gitlab \/ VscodeStep \/ GitlabStep \/ ScaffoldReturn

SpecScaffold == InitScaffold /\ [][NextScaffold]_vars

(***************************************************************************)
(* Properties of the scaffold commands (checked under SpecScaffold).       *)
(***************************************************************************)
\* the user was asked about path p and confirmed, or declined
Confirmed(p) == \E j \in 1..Len(prompts) : prompts[j] = [path |-> p, answer |-> TRUE]

Declined(p) == \E j \in 1..Len(prompts) : prompts[j] = [path |-> p, answer |-> FALSE]

\* the template files the invoked command copies
Copied ==
    IF inv.cmd = "vscode"
    THEN { t \in VscodeDir \cup CfgDir : t.stem # "flake8" }
    ELSE GitlabIssues \cup GitlabMergeRequests

\* C11: vscode and gitlab replace the content of a file that already exists
\* only with --forced or after the user confirmed the replacement of that
\* file; a file the user declined is left as it was, the remaining template
\* files are still processed and the command returns 0.
C11_ReplaceOnlyOnConsent ==
    inv.cmd \in {"vscode", "gitlab"} =>
    /\ \A i \in 1..Len(writes) :
          writes[i].existed => (inv.forced \/ Confirmed(writes[i].path))
    /\ \A p \in TargetFiles :
          (before[p] # "absent" /\ target[p] # before[p]) => (inv.forced \/ Confirmed(p))
    /\ \A p \in TargetFiles :
          Declined(p) => /\ target[p] = before[p]
                         /\ \A i \in 1..Len(writes) : writes[i].path # p
    /\ (pc = "done" /\ \E p \in TargetFiles : Declined(p))
       => /\ outcome = Return(0)
          /\ todo = << >>
          /\ Len(console) = Cardinality(Copied)
          /\ \A t \in Copied :
                ~Declined(TargetPath(t)) => target[TargetPath(t)] = t.src

\* vscode without --forced: the user kept settings.json, let pylintrc be
\* replaced, and extensions.json, which was not there, was written
C11_Witness ==
    /\ inv = [cmd |-> "vscode", forced |-> FALSE]
    /\ pc = "done"
    /\ Len(prompts) = 2
    /\ prompts[1] = [path |-> ".vscode/settings.json", answer |-> FALSE]
    /\ Confirmed(".vscode/pylintrc")
    /\ before[".vscode/extensions.json"] = "absent"
    /\ target[".vscode/settings.json"] = "user"
    /\ target[".vscode/pylintrc"] = "cfg/pylintrc"
    /\ target[".vscode/extensions.json"] = "vscode/extensions.json"
    /\ outcome = Return(0)

====
